---------------------------- MODULE Spec2Model ----------------------------
(***************************************************************************)
(* SynapseWatcher (synapsewatcher.py): a polling watcher over a directory  *)
(* of JSON message files.  The module models                               *)
(*   - SynapseMessage.from_file   (payload -> message, with defaults),      *)
(*   - MessageFilter.matches      (the filter predicate),                   *)
(*   - SynapseWatcher             (constructor, register_callback,          *)
(*     set_filter, start, _watch_loop, _detect_new_messages,                *)
(*     _process_message, stop),                                             *)
(* together with the file system the watcher polls.                        *)
(*                                                                         *)
(* Strings that are only compared for equality are TLA+ strings; strings   *)
(* that are searched (subject, body text, keywords) are sequences of       *)
(* one-character strings.  An Optional[str] is a sequence of length <= 1:  *)
(* <<>> is None, <<s>> is the string s.                                    *)
(***************************************************************************)
EXTENDS Integers, Sequences, FiniteSets, TLC

\* ------------------------------------------------------------------ bounds
\* number of distinct filename stems the inbox may hold
MaxFiles == 2
\* number of callbacks that may be registered
MaxCallbacks == 2

\* the poll interval in ticks of the clock (poll_interval: float = 1.0)
PollTicks == 1

\* ------------------------------------------------------------- small helpers
None == <<>>
Some(s) == <<s>>
\* Python truthiness of an Optional[str]: None and "" are falsy
Truthy(o) == o # None /\ o[1] # ""

Elems(seq) == {seq[i] : i \in DOMAIN seq}

\* str.lower() on one character of the alphabet used by the model
LowerChar(c) ==
    CASE c = "C" -> "c"
      [] c = "A" -> "a"
      [] c = "T" -> "t"
      [] c = "S" -> "s"
      [] OTHER -> c

\* str.lower()
lower(s) == [i \in DOMAIN s |-> LowerChar(s[i])]

\* Python's `kw in text` on strings: substring test
Contains(kw, text) ==
    \E i \in 0..(Len(text) - Len(kw)) : SubSeq(text, i + 1, i + Len(kw)) = kw

RECURSIVE JoinItems(_)
\* json.dumps of the items of a dict whose keys and values are strings:
\* "k": "v" joined by ", "
JoinItems(items) ==
    IF items = <<>> THEN <<>>
    ELSE LET kv == items[1]
             one == <<"\"">> \o kv[1] \o <<"\"", ":", " ", "\"">> \o kv[2] \o <<"\"">>
         IN IF Len(items) = 1 THEN one
            ELSE one \o <<",", " ">> \o JoinItems(Tail(items))

\* json.dumps(body) when body is a dict, str(body) otherwise (line 101)
body_text(body) ==
    IF body.is_dict THEN <<"{">> \o JoinItems(body.items) \o <<"}">>
    ELSE body.value

\* ------------------------------------------------ SynapseMessage.from_file
\* dict.get(key, default) on a parsed JSON object (a TLA+ record)
Get(data, key, default) == IF key \in DOMAIN data THEN data[key] ELSE default

EmptyBody == [is_dict |-> TRUE, items |-> <<>>]
EmptyTo == [is_list |-> TRUE, items |-> <<>>]

\* a plausible slip: the two identity keys are looked up in the other order
from_file_alias_swapped(data, filepath) ==
    [msg_id     |-> Get(data, "message_id", Get(data, "msg_id", "unknown")),
     from_agent |-> Get(data, "from", Get(data, "from_agent", "UNKNOWN")),
     to         |-> Get(data, "to", EmptyTo),
     subject    |-> Get(data, "subject", <<>>),
     body       |-> Get(data, "body", EmptyBody),
     priority   |-> Get(data, "priority", "NORMAL"),
     timestamp  |-> Get(data, "timestamp", ""),
     filepath   |-> filepath]

\* SynapseMessage.from_file, after json.load returned the object `data`
from_file(data, filepath) ==
    [msg_id     |-> Get(data, "msg_id", Get(data, "message_id", "unknown")),
     from_agent |-> Get(data, "from", Get(data, "from_agent", "UNKNOWN")),
     to         |-> Get(data, "to", EmptyTo),
     subject    |-> Get(data, "subject", <<>>),
     body       |-> Get(data, "body", EmptyBody),
     priority   |-> Get(data, "priority", "NORMAL"),
     timestamp  |-> Get(data, "timestamp", ""),
     filepath   |-> filepath]

\* ---------------------------------------------------- MessageFilter
\* MessageFilter.__init__: keywords or []
MessageFilter(to_agent, from_agent, priority, keywords) ==
    [to_agent |-> to_agent, from_agent |-> from_agent,
     priority |-> priority, keywords |-> keywords]

\* line 87: message.to if isinstance(message.to, list) else [message.to]
to_list(message) ==
    IF message.to.is_list THEN message.to.items ELSE <<message.to.value>>

\* a plausible slip: only the "ALL_AGENTS" marker is recognised
to_agent_fails_no_all(self, message) ==
    /\ self.to_agent[1] \notin Elems(to_list(message))
    /\ "ALL_AGENTS" \notin Elems(to_list(message))

\* line 88: the recipient test fails
to_agent_fails(self, message) ==
    /\ self.to_agent[1] \notin Elems(to_list(message))
    /\ "ALL_AGENTS" \notin Elems(to_list(message))
    /\ "ALL" \notin Elems(to_list(message))

\* a plausible slip: the text is lowercased, the keywords are not
keywords_fail_case_sensitive(self, message) ==
    LET text == lower(message.subject \o <<" ">> \o body_text(message.body))
    IN ~ \E i \in DOMAIN self.keywords : Contains(self.keywords[i], text)

\* lines 101-103: no keyword, lowercased, occurs in the lowercased text
keywords_fail(self, message) ==
    LET text == lower(message.subject \o <<" ">> \o body_text(message.body))
    IN ~ \E i \in DOMAIN self.keywords : Contains(lower(self.keywords[i]), text)

\* matches with the sender test of lines 90-92 applied only when no priority
\* constraint is set
matches_sender_skipped(self, message) ==
    IF Truthy(self.to_agent) /\ to_agent_fails(self, message) THEN FALSE
    ELSE IF Truthy(self.from_agent) /\ ~Truthy(self.priority)
            /\ message.from_agent # self.from_agent[1] THEN FALSE
    ELSE IF Truthy(self.priority) /\ message.priority # self.priority[1] THEN FALSE
    ELSE IF self.keywords # <<>> /\ keywords_fail(self, message) THEN FALSE
    ELSE TRUE

\* a plausible slip: the keyword test without the `if self.keywords` guard
matches_keywords_unguarded(self, message) ==
    IF Truthy(self.to_agent) /\ to_agent_fails(self, message) THEN FALSE
    ELSE IF Truthy(self.from_agent) /\ message.from_agent # self.from_agent[1] THEN FALSE
    ELSE IF Truthy(self.priority) /\ message.priority # self.priority[1] THEN FALSE
    ELSE IF keywords_fail(self, message) THEN FALSE
    ELSE TRUE

\* MessageFilter.matches: four checks in order, the first failure returns False
matches(self, message) ==
    IF Truthy(self.to_agent) /\ to_agent_fails(self, message) THEN FALSE
    ELSE IF Truthy(self.from_agent) /\ message.from_agent # self.from_agent[1] THEN FALSE
    ELSE IF Truthy(self.priority) /\ message.priority # self.priority[1] THEN FALSE
    ELSE IF self.keywords # <<>> /\ keywords_fail(self, message) THEN FALSE
    ELSE TRUE


\* ------------------------------------------------------------ the inbox
\* filename stems of *.json files in the inbox
Stems == 1..MaxFiles
\* registered callbacks are identified by their position in self.callbacks
Handlers == 1..MaxCallbacks
\* thread 1 is the thread that calls start()
Threads == {1}

Absent == [kind |-> "absent"]
\* a file whose content json.load rejects (json.JSONDecodeError)
BadJson == [kind |-> "invalid"]
Json(data) == [kind |-> "json", data |-> data]

\* two payloads: one relies on the default priority, one is CRITICAL
PayloadNormal == [msg_id |-> "m1", from |-> "FORGE"]
PayloadCritical == [message_id |-> "m1", from_agent |-> "ATLAS", priority |-> "CRITICAL"]
Contents == {BadJson, Json(PayloadNormal), Json(PayloadCritical)}

\* the filters a caller configures in the watcher model
FilterCritical == MessageFilter(None, None, Some("CRITICAL"), <<>>)
FilterChoices == {None, Some(FilterCritical)}

VARIABLES
    \* ---- the file system
    path_state,       \* synapse_path: "ok" | "missing" | "notdir"
    inbox,            \* stem -> content of <stem>.json, or Absent
    \* ---- the SynapseWatcher object
    watcher,          \* "none" | "constructed" | "ctor_raised"
    message_filter,   \* self.message_filter (Optional)
    callbacks,        \* self.callbacks
    seen_messages,    \* self.seen_messages
    running,          \* self.running
    \* ---- the thread executing start()
    pc,               \* thread -> position in start() / _watch_loop()
    new_messages,     \* thread -> files of this cycle not yet processed
    cur,              \* thread -> message being dispatched (Optional)
    cb_i,             \* thread -> index of the next callback to invoke
    raised_at,        \* thread -> index of the first callback that raised in
                      \*           the dispatch in progress (0: none so far)
    scan,             \* thread -> the paths glob has still to yield in the
                      \*           for loop of _detect_new_messages
    sleep_left,       \* thread -> ticks left of the time.sleep in progress
    \* ---- history (not program state)
    calls,            \* stem -> the callbacks invoked for the file, in order
    outcome,          \* stem -> "none" | "error" | "filtered" | "dispatched"
    origin,           \* stem -> how the file now under this stem arrived:
                      \*   "pre"   it was there when start() set self.running
                      \*   "late"  it was added after the initial scan, under a
                      \*           stem that was not in the seen-set
                      \*   "early" it was added after start() set self.running,
                      \*           otherwise
                      \*   "none"  no file, or no start() yet
    path_at_ctor,     \* path_state when __init__ ran ("unset" before)
    path_at_start,    \* path_state when start() was called ("unset" before)
    stop_called,      \* stop() was called after some start() set running
    stop_requested,   \* stop() was called while a start() call was executing
    detect_failed,    \* thread -> the detection of the cycle in progress failed
    \* ---- inputs and result of the pure functions (MatchSpec)
    arg_filter,       \* the MessageFilter matches is called on
    arg_message,      \* the SynapseMessage it is called with
    ret_matches,      \* its return value (Optional: None before the call)
    \* ---- input and result of from_file (ParseSpec)
    arg_data,         \* the JSON object json.load returned
    ret_message       \* the SynapseMessage built from it (Optional)

watcher_vars == <<watcher, message_filter, callbacks, seen_messages, running>>
thread_vars == <<pc, new_messages, cur, cb_i, raised_at, scan, sleep_left>>
env_vars == <<path_state, inbox>>
hist_vars == <<calls, outcome, origin, path_at_ctor, path_at_start, stop_called,
              stop_requested, detect_failed>>
pure_vars == <<arg_filter, arg_message, ret_matches, arg_data, ret_message>>
vars == <<env_vars, watcher_vars, thread_vars, hist_vars, pure_vars>>

\* positions of a thread inside _watch_loop's while loop
LoopPcs == {"top", "detect", "iter", "claim", "process", "callbacks", "sleep"}
\* positions after the initial scan has completed
AfterBaseline == LoopPcs \cup {"finally", "returned"}
BaselineDone == \E t \in Threads : pc[t] \in AfterBaseline

Present == {s \in Stems : inbox[s] # Absent}

\* the stems queued in some thread's current cycle and not yet processed
Queued == UNION {Elems(new_messages[t]) : t \in Threads}

\* a plausible slip: a pattern that matches no message file
glob_wrong_pattern == {}

\* synapse_path.glob("*.json") when it does not raise: the stems found
\* (nothing when the path is no directory)
glob == IF path_state = "ok" THEN Present ELSE {}

\* all orders in which glob may yield the set S (directory order is arbitrary)
Orders(S) ==
    {q \in [1..Cardinality(S) -> S] : \A i, j \in 1..Cardinality(S) : i # j => q[i] # q[j]}

IdleFilter == MessageFilter(None, None, None, <<>>)
IdleMessage == from_file(PayloadNormal, 0)

Init ==
    /\ path_state \in {"ok", "missing", "notdir"}
    /\ inbox = [s \in Stems |-> Absent]
    /\ watcher = "none"
    /\ message_filter = None
    /\ callbacks = <<>>
    /\ seen_messages = {}
    /\ running = FALSE
    /\ pc = [t \in Threads |-> "idle"]
    /\ new_messages = [t \in Threads |-> <<>>]
    /\ cur = [t \in Threads |-> None]
    /\ cb_i = [t \in Threads |-> 1]
    /\ raised_at = [t \in Threads |-> 0]
    /\ scan = [t \in Threads |-> <<>>]
    /\ sleep_left = [t \in Threads |-> 0]
    /\ calls = [s \in Stems |-> <<>>]
    /\ outcome = [s \in Stems |-> "none"]
    /\ origin = [s \in Stems |-> "none"]
    /\ path_at_ctor = "unset"
    /\ path_at_start = "unset"
    /\ stop_called = FALSE
    /\ stop_requested = FALSE
    /\ detect_failed = [t \in Threads |-> FALSE]
    /\ arg_filter = IdleFilter
    /\ arg_message = IdleMessage
    /\ ret_matches = None
    /\ arg_data = PayloadNormal
    /\ ret_message = None

\* ------------------------------------------------------- the file system
\* another process writes <s>.json into the inbox
AddFile(s, c) ==
    /\ path_state = "ok"
    /\ inbox[s] = Absent
    /\ inbox' = [inbox EXCEPT ![s] = c]
    /\ origin' = [origin EXCEPT ![s] =
                    IF \A t \in Threads : pc[t] \in {"idle", "set"} THEN "none"
                    ELSE IF BaselineDone /\ s \notin seen_messages THEN "late"
                    ELSE "early"]
    /\ UNCHANGED <<path_state, watcher_vars, thread_vars, pure_vars,
                   calls, outcome, path_at_ctor, path_at_start, stop_called,
                   stop_requested, detect_failed>>

\* another process removes <s>.json
DeleteFile(s) ==
    /\ inbox[s] # Absent
    /\ inbox' = [inbox EXCEPT ![s] = Absent]
    /\ origin' = [origin EXCEPT ![s] = "none"]
    /\ UNCHANGED <<path_state, watcher_vars, thread_vars, pure_vars,
                   calls, outcome, path_at_ctor, path_at_start, stop_called,
                   stop_requested, detect_failed>>

\* the inbox directory is removed, or replaced by a regular file
PathRemove(k) ==
    /\ path_state = "ok"
    /\ path_state' = k
    /\ inbox' = [s \in Stems |-> Absent]
    /\ origin' = [s \in Stems |-> "none"]
    /\ UNCHANGED <<watcher_vars, thread_vars, pure_vars,
                   calls, outcome, path_at_ctor, path_at_start, stop_called,
                   stop_requested, detect_failed>>

\* ------------------------------------------------------ SynapseWatcher
\* a plausible slip: __init__ without the path validation
Construct_unvalidated(f) ==
    /\ watcher = "none"
    /\ path_at_ctor' = path_state
    /\ message_filter' = f
    /\ watcher' = "constructed"
    /\ UNCHANGED <<env_vars, callbacks, seen_messages, running, thread_vars,
                   pure_vars, calls, outcome, origin, path_at_start, stop_called,
                   stop_requested, detect_failed>>

\* SynapseWatcher.__init__: raises unless synapse_path is an existing directory
Construct(f) ==
    /\ watcher = "none"
    /\ path_at_ctor' = path_state
    /\ message_filter' = f
    /\ watcher' = IF path_state = "ok" THEN "constructed" ELSE "ctor_raised"
    /\ UNCHANGED <<env_vars, callbacks, seen_messages, running, thread_vars,
                   pure_vars, calls, outcome, origin, path_at_start, stop_called,
                   stop_requested, detect_failed>>

\* register_callback: append to self.callbacks
register_callback ==
    /\ watcher = "constructed"
    /\ Len(callbacks) < MaxCallbacks
    /\ callbacks' = Append(callbacks, Len(callbacks) + 1)
    /\ UNCHANGED <<env_vars, watcher, message_filter, seen_messages, running,
                   thread_vars, hist_vars, pure_vars>>

\* set_filter
set_filter(f) ==
    /\ watcher = "constructed"
    /\ message_filter # f
    /\ message_filter' = f
    /\ UNCHANGED <<env_vars, watcher, callbacks, seen_messages, running,
                   thread_vars, hist_vars, pure_vars>>

\* stop(): self.running = False
stop ==
    /\ watcher = "constructed"
    /\ running' = FALSE
    /\ stop_called' = (stop_called \/ \E t \in Threads : pc[t] \in {"baseline"} \cup LoopPcs)
    /\ stop_requested' =
          (stop_requested \/ \E t \in Threads : pc[t] \in {"set", "baseline"} \cup LoopPcs)
    /\ UNCHANGED <<env_vars, watcher, message_filter, callbacks, seen_messages,
                   thread_vars, pure_vars, calls, outcome, origin,
                   path_at_ctor, path_at_start, detect_failed>>

\* a plausible slip: the `if self.running` test is inside the try block, so
\* that the rejected call runs the finally clause on its way out
StartCheck_in_try(t) ==
    /\ watcher = "constructed"
    /\ pc[t] = "idle"
    /\ pc' = [pc EXCEPT ![t] = IF running THEN "finally" ELSE "set"]
    /\ path_at_start' = path_state
    /\ UNCHANGED <<env_vars, watcher_vars, new_messages, cur, cb_i, raised_at, scan, sleep_left,
                   pure_vars,
                   calls, outcome, origin, path_at_ctor, stop_called,
                   stop_requested, detect_failed>>

\* start(), lines 243-248: the call and the `if self.running` test
StartCheck(t) ==
    /\ watcher = "constructed"
    /\ pc[t] = "idle"
    /\ pc' = [pc EXCEPT ![t] = IF running THEN "rejected" ELSE "set"]
    /\ path_at_start' = path_state
    /\ UNCHANGED <<env_vars, watcher_vars, new_messages, cur, cb_i, raised_at, scan, sleep_left,
                   pure_vars,
                   calls, outcome, origin, path_at_ctor, stop_called,
                   stop_requested, detect_failed>>

\* start(), line 250: self.running = True
StartSet(t) ==
    /\ pc[t] = "set"
    /\ running' = TRUE
    /\ pc' = [pc EXCEPT ![t] = "baseline"]
    /\ origin' = [s \in Stems |-> IF inbox[s] # Absent THEN "pre" ELSE "none"]
    /\ UNCHANGED <<env_vars, watcher, message_filter, callbacks, seen_messages,
                   new_messages, cur, cb_i, raised_at, scan, sleep_left,
                   pure_vars,
                   calls, outcome, path_at_ctor, path_at_start, stop_called,
                   stop_requested, detect_failed>>

\* a plausible slip: the initial scan marks nothing
BaselineMarks_none(found) == seen_messages

\* lines 218-219: what the initial scan leaves in self.seen_messages
BaselineMarks(found) == seen_messages \cup found

\* _watch_loop, lines 217-220: the initial scan, when glob does not raise
Baseline(t) ==
    /\ pc[t] = "baseline"
    /\ seen_messages' = BaselineMarks(glob)
    /\ pc' = [pc EXCEPT ![t] = "top"]
    /\ UNCHANGED <<env_vars, watcher, message_filter, callbacks, running,
                   new_messages, cur, cb_i, raised_at, scan, sleep_left, hist_vars, pure_vars>>

\* the initial scan when glob raises: nothing catches it in _watch_loop, so
\* start()'s finally clause runs (self.running = False) and start() raises
BaselineFail(t) ==
    /\ pc[t] = "baseline"
    /\ running' = FALSE
    /\ pc' = [pc EXCEPT ![t] = "raised"]
    /\ UNCHANGED <<env_vars, watcher, message_filter, callbacks, seen_messages,
                   new_messages, cur, cb_i, raised_at, scan, sleep_left, hist_vars, pure_vars>>

\* a plausible slip: `while True`
LoopContinues_always == TRUE

\* line 222: the loop condition
LoopContinues == running

\* line 222: `while self.running`
LoopTest(t) ==
    /\ pc[t] = "top"
    /\ pc' = [pc EXCEPT ![t] = IF LoopContinues THEN "detect" ELSE "finally"]
    /\ UNCHANGED <<env_vars, watcher_vars, new_messages, cur, cb_i, raised_at, scan, sleep_left,
                   hist_vars, pure_vars>>

\* start(), lines 255-257: finally: self.running = False; start() returns
Finally(t) ==
    /\ pc[t] = "finally"
    /\ running' = FALSE
    /\ pc' = [pc EXCEPT ![t] = "returned"]
    /\ UNCHANGED <<env_vars, watcher, message_filter, callbacks, seen_messages,
                   new_messages, cur, cb_i, raised_at, scan, sleep_left, hist_vars, pure_vars>>

\* a plausible slip: the membership test of line 177 is inverted
Unseen_inverted(found) == found \cap seen_messages

\* line 177: the stems glob yields that are not in the seen-set
Unseen(found) == found \ seen_messages

\* a plausible slip: detection forgets to add the stem to the seen-set
DetectMarks_none(found) == seen_messages

\* line 179: what detection leaves in self.seen_messages
DetectMarks(found) == seen_messages \cup found

\* _detect_new_messages when glob does not raise: the unseen stems, in the
\* order glob yields them, are returned and added to the seen-set
DetectOk(t) ==
    /\ pc[t] = "detect"
    /\ \E q \in Orders(Unseen(glob)) :
          new_messages' = [new_messages EXCEPT ![t] = q]
    /\ seen_messages' = DetectMarks(Unseen(glob))
    /\ pc' = [pc EXCEPT ![t] = "process"]
    /\ detect_failed' = [detect_failed EXCEPT ![t] = FALSE]
    /\ UNCHANGED <<env_vars, watcher, message_filter, callbacks, running,
                   cur, cb_i, raised_at, scan, sleep_left,
                   pure_vars,
                   calls, outcome, origin, path_at_ctor, path_at_start,
                   stop_called, stop_requested>>

\* a plausible slip: the stems are put into the seen-set before the
\* enumeration is known to have succeeded
FailedDetectMarks_present == seen_messages \cup Present

\* lines 180-181: what a failed enumeration leaves in self.seen_messages
\* (glob lists the directory before it yields the first path, so nothing
\* has been added when it raises)
FailedDetectMarks == seen_messages

\* _detect_new_messages when glob raises: logged, the empty list is returned
DetectFail(t) ==
    /\ pc[t] = "detect"
    /\ new_messages' = [new_messages EXCEPT ![t] = <<>>]
    /\ seen_messages' = FailedDetectMarks
    /\ pc' = [pc EXCEPT ![t] = "process"]
    /\ detect_failed' = [detect_failed EXCEPT ![t] = TRUE]
    /\ UNCHANGED <<env_vars, watcher, message_filter, callbacks, running,
                   cur, cb_i, raised_at, scan, sleep_left,
                   pure_vars,
                   calls, outcome, origin, path_at_ctor, path_at_start,
                   stop_called, stop_requested>>

\* a plausible slip: the files are taken from the end of the list
Head_last(t) == new_messages[t][Len(new_messages[t])]

\* the file being processed: the head of what is left of new_messages
Head_(t) == Head(new_messages[t])

\* line 189: SynapseMessage.from_file raises: open() fails for a file that
\* is gone (c = Absent), json.load fails for a file that is not valid JSON
load_fails(c) == c.kind # "json"

\* a plausible slip: the filter is never consulted
passes_filter_always(message) == TRUE

\* line 192: the filter gate
passes_filter(message) ==
    IF message_filter = None THEN TRUE ELSE matches(message_filter[1], message)

\* a plausible slip: a failed file is taken out of the seen-set, to be retried
AfterError_retry(s) == seen_messages \ {s}

\* lines 206-209: the except clauses only log; the seen-set is left alone
AfterError(s) == seen_messages

\* a plausible slip: the try/except is around the whole for loop, so that a
\* raising callback ends the dispatch of the message
NextCallback_abort(i, raised) == IF raised THEN Len(callbacks) + 1 ELSE i + 1

\* lines 200-204: the for loop goes on to the next callback, raised or not
NextCallback(i, raised) == i + 1

\* bound of the history kept per stem (reached only by a faulty watcher)
CallsCap == 2 * MaxCallbacks

\* a plausible slip: the for loop of line 228 is left as soon as the running
\* flag is cleared
CycleDone_on_stop(t) == IF running THEN new_messages[t] = <<>> ELSE TRUE

\* line 228: the for loop ends when new_messages is exhausted, and only then
CycleDone(t) == new_messages[t] = <<>>

\* line 228: new_messages is exhausted; line 232: time.sleep is entered
ProcessEmpty(t) ==
    /\ pc[t] = "process"
    /\ CycleDone(t)
    /\ pc' = [pc EXCEPT ![t] = "sleep"]
    /\ sleep_left' = [sleep_left EXCEPT ![t] = PollTicks]
    /\ UNCHANGED <<env_vars, watcher_vars, new_messages, cur, cb_i, raised_at, scan,
                   hist_vars, pure_vars>>

\* _process_message: from_file raises; the error is logged (lines 206-209)
ProcessError(t) ==
    /\ pc[t] = "process"
    /\ new_messages[t] # <<>>
    /\ load_fails(inbox[Head_(t)])
    /\ seen_messages' = AfterError(Head_(t))
    /\ outcome' = [outcome EXCEPT ![Head_(t)] = "error"]
    /\ new_messages' = [new_messages EXCEPT ![t] = Tail(@)]
    /\ UNCHANGED <<env_vars, watcher, message_filter, callbacks, running,
                   pc, cur, cb_i, raised_at, scan, sleep_left,
                   pure_vars,
                   calls, origin, path_at_ctor, path_at_start, stop_called,
                   stop_requested, detect_failed>>

\* _process_message: the message is loaded and the filter rejects it
ProcessFiltered(t) ==
    /\ pc[t] = "process"
    /\ new_messages[t] # <<>>
    /\ ~load_fails(inbox[Head_(t)])
    /\ ~passes_filter(from_file(inbox[Head_(t)].data, Head_(t)))
    /\ outcome' = [outcome EXCEPT ![Head_(t)] = "filtered"]
    /\ new_messages' = [new_messages EXCEPT ![t] = Tail(@)]
    /\ UNCHANGED <<env_vars, watcher_vars, pc, cur, cb_i, raised_at, scan, sleep_left,
                   pure_vars,
                   calls, origin, path_at_ctor, path_at_start, stop_called,
                   stop_requested, detect_failed>>

\* _process_message: the message is loaded and passes; the callbacks follow
ProcessDispatch(t) ==
    /\ pc[t] = "process"
    /\ new_messages[t] # <<>>
    /\ ~load_fails(inbox[Head_(t)])
    /\ passes_filter(from_file(inbox[Head_(t)].data, Head_(t)))
    /\ cur' = [cur EXCEPT ![t] = Some(from_file(inbox[Head_(t)].data, Head_(t)))]
    /\ cb_i' = [cb_i EXCEPT ![t] = 1]
    /\ raised_at' = [raised_at EXCEPT ![t] = 0]
    /\ pc' = [pc EXCEPT ![t] = "callbacks"]
    /\ UNCHANGED <<env_vars, watcher_vars, new_messages, scan, sleep_left,
                   hist_vars, pure_vars>>

\* lines 200-204: one callback is invoked with the message; it returns or
\* raises (caught and logged)
Callback(t, raised) ==
    /\ pc[t] = "callbacks"
    /\ cb_i[t] <= Len(callbacks)
    /\ calls' = [calls EXCEPT ![cur[t][1].filepath] =
                    IF Len(@) < CallsCap
                    THEN Append(@, callbacks[cb_i[t]])
                    ELSE @]
    /\ raised_at' = [raised_at EXCEPT ![t] =
                        IF raised /\ @ = 0 THEN cb_i[t] ELSE @]
    /\ cb_i' = [cb_i EXCEPT ![t] = NextCallback(cb_i[t], raised)]
    /\ UNCHANGED <<env_vars, watcher_vars, pc, new_messages, cur, scan, sleep_left,
                   pure_vars, outcome, origin, path_at_ctor, path_at_start,
                   stop_called,
                   stop_requested, detect_failed>>

\* the for loop over self.callbacks ends; _process_message returns
CallbacksDone(t) ==
    /\ pc[t] = "callbacks"
    /\ cb_i[t] > Len(callbacks)
    /\ outcome' = [outcome EXCEPT ![cur[t][1].filepath] = "dispatched"]
    /\ new_messages' = [new_messages EXCEPT ![t] = Tail(@)]
    /\ cur' = [cur EXCEPT ![t] = None]
    /\ cb_i' = [cb_i EXCEPT ![t] = 1]
    /\ raised_at' = [raised_at EXCEPT ![t] = 0]
    /\ pc' = [pc EXCEPT ![t] = "process"]
    /\ UNCHANGED <<env_vars, watcher_vars, scan, sleep_left, pure_vars,
                   calls, origin, path_at_ctor, path_at_start,
                   stop_called,
                   stop_requested, detect_failed>>

\* line 232: time.sleep(self.poll_interval) returns after the interval (what
\* is left of it elapses)
Sleep(t) ==
    /\ pc[t] = "sleep"
    /\ pc' = [pc EXCEPT ![t] = "top"]
    /\ sleep_left' = [sleep_left EXCEPT ![t] = 0]
    /\ detect_failed' = [detect_failed EXCEPT ![t] = FALSE]
    /\ UNCHANGED <<env_vars, watcher_vars, new_messages, cur, cb_i, raised_at, scan,
                   pure_vars, calls, outcome, origin, path_at_ctor, path_at_start,
                   stop_called, stop_requested>>

\* ------------------------------------------------------ specification
Environment ==
    \/ \E s \in Stems, c \in Contents : AddFile(s, c)
    \/ \E s \in Stems : DeleteFile(s)
    \/ \E k \in {"missing", "notdir"} : PathRemove(k)

Caller ==
    \/ \E f \in FilterChoices : Construct(f)
    \/ register_callback
    \/ \E f \in FilterChoices : set_filter(f)
    \/ stop

Loop(t) ==
    \/ StartCheck(t)
    \/ StartSet(t)
    \/ Baseline(t)
    \/ BaselineFail(t)
    \/ LoopTest(t)
    \/ DetectOk(t)
    \/ DetectFail(t)
    \/ ProcessEmpty(t)
    \/ ProcessError(t)
    \/ ProcessFiltered(t)
    \/ ProcessDispatch(t)
    \/ \E raised \in BOOLEAN : Callback(t, raised)
    \/ CallbacksDone(t)
    \/ Sleep(t)
    \/ Finally(t)

Next == Environment \/ Caller \/ \E t \in Threads : Loop(t)

Spec == Init /\ [][Next]_vars

TypeOK ==
    /\ path_state \in {"ok", "missing", "notdir"}
    /\ watcher \in {"none", "constructed", "ctor_raised"}
    /\ running \in BOOLEAN
    /\ seen_messages \subseteq Stems
    /\ Len(callbacks) <= MaxCallbacks


\* ---------------------------------------------------------------- helpers
\* the callbacks invoked so far for the file <s>.json, in order
CalledFor(s) == calls[s]
\* thread t takes a step of _process_message / _watch_loop
Moves(t) == pc'[t] # pc[t] \/ new_messages'[t] # new_messages[t] \/ cb_i'[t] # cb_i[t]

\* ------------------------------------------------------------------- C1
\* C1 (baseline exclusion): a file that was in the inbox when the watcher was
\* started is never queued, never handed to _process_message and no callback
\* is ever invoked for it, in whatever poll cycle.
C1_BaselineExclusion ==
    \A s \in Stems :
        origin[s] = "pre" =>
            /\ calls[s] = <<>>
            /\ outcome[s] = "none"
            /\ s \notin Queued

\* a valid file from before the start is still in the inbox, untouched, while
\* the loop has completed a cycle in which another file was dispatched
C1_Witness ==
    \E s, s2 \in Stems :
        /\ origin[s] = "pre" /\ inbox[s] = Json(PayloadNormal)
        /\ message_filter = None
        /\ s \in seen_messages
        /\ outcome[s2] = "dispatched" /\ Len(calls[s2]) = 2
        /\ pc[1] = "sleep"

\* ------------------------------------------------------------------- C2
\* C2 (at-most-once dispatch): no callback is invoked twice for one filename
\* stem, whatever the msg_id in the content; every queued stem is in the
\* seen-set, and detection never queues a stem that is in the seen-set, so a
\* file queued once is not queued again.
C2_AtMostOnce ==
    /\ [](\A s \in Stems : \A i, j \in DOMAIN calls[s] :
              i # j => calls[s][i] # calls[s][j])
    /\ [](Queued \subseteq seen_messages)
    /\ [][\A t \in Threads :
              pc[t] = "detect" /\ pc'[t] = "process"
                  => Elems(new_messages'[t]) \cap seen_messages = {}]_vars

\* two files with the same msg_id in their content ("m1") but different stems
\* have both been dispatched, once to each of two callbacks, and are still in
\* the inbox while the loop is in a later cycle
C2_Witness ==
    /\ \A s \in Stems :
          /\ inbox[s] \in {Json(PayloadNormal), Json(PayloadCritical)}
          /\ CalledFor(s) = <<1, 2>>
          /\ outcome[s] = "dispatched"
    /\ pc[1] = "detect"
    /\ new_messages[1] = <<>>

\* ------------------------------------------------------------------- C4
\* C4 (handler failure isolation): while a message is dispatched, the
\* callbacks invoked for it are exactly those before the loop index, raised
\* or not, so a raising callback skips none; the step in which a callback
\* raises leaves the loop in the dispatch of the same message, with the rest
\* of the cycle's files still queued and the running flag untouched.
C4_HandlerIsolation ==
    /\ [](\A t \in Threads :
              pc[t] = "callbacks" =>
                  /\ cb_i[t] \in 1..(Len(callbacks) + 1)
                  /\ CalledFor(cur[t][1].filepath) = [i \in 1..(cb_i[t] - 1) |-> callbacks[i]])
    /\ [][\A t \in Threads :
              (pc[t] = "callbacks" /\ raised_at[t] = 0 /\ raised_at'[t] # 0)
                  => /\ pc'[t] = "callbacks"
                     /\ new_messages'[t] = new_messages[t]
                     /\ running' = running]_vars

\* the first of two callbacks raised for the second file of a cycle and the
\* second callback has still been invoked for it; the first file of the
\* cycle was dispatched to both
C4_Witness ==
    \E s, s2 \in Stems :
        /\ s # s2
        /\ pc[1] = "callbacks"
        /\ new_messages[1] = <<s>>
        /\ raised_at[1] = 1
        /\ cb_i[1] = 3
        /\ calls[s] = <<1, 2>>
        /\ calls[s2] = <<1, 2>>
        /\ outcome[s2] = "dispatched"

\* ------------------------------------------------------------------- C5
\* the file at the head of thread t's queue loads and the configured filter
\* rejects its message
HeadRejected(t) ==
    /\ pc[t] = "process"
    /\ new_messages[t] # <<>>
    /\ inbox[Head(new_messages[t])].kind = "json"
    /\ message_filter # None
    /\ ~matches(message_filter[1],
                from_file(inbox[Head(new_messages[t])].data, Head(new_messages[t])))

\* C5 (filter gate): when a filter is configured and the loaded message does
\* not match it, the processing step drops the file: no callback is invoked,
\* nothing is raised (the thread stays in the for loop of the cycle with the
\* other queued files, the running flag untouched), and no callback is ever
\* invoked for a file that was filtered out.
C5_FilterGate ==
    /\ [][\A t \in Threads :
              HeadRejected(t) /\ Moves(t)
                  => /\ pc'[t] = "process"
                     /\ new_messages'[t] = Tail(new_messages[t])
                     /\ calls' = calls
                     /\ running' = running]_vars
    /\ [](\A s \in Stems : outcome[s] = "filtered" => calls[s] = <<>>)

\* with the CRITICAL filter configured, a NORMAL file has been filtered out
\* with no callback invoked, and the CRITICAL file has then been dispatched
C5_Witness ==
    \E s, s2 \in Stems :
        /\ message_filter = Some(FilterCritical)
        /\ inbox[s] = Json(PayloadNormal)
        /\ outcome[s] = "filtered" /\ calls[s] = <<>>
        /\ inbox[s2] = Json(PayloadCritical)
        /\ outcome[s2] = "dispatched" /\ Len(calls[s2]) = 2
        /\ pc[1] = "detect"

\* ------------------------------------------------------------------- C6
\* the file at the head of thread t's queue is gone, unreadable or not JSON
HeadFails(t) ==
    /\ pc[t] = "process"
    /\ new_messages[t] # <<>>
    /\ inbox[Head(new_messages[t])].kind # "json"

\* C6 (parse/access error containment): the processing step for a file that
\* cannot be read or parsed invokes no callback and raises nothing (the
\* thread stays in the cycle with the other queued files); the stem stays in
\* the seen-set and is never queued again, and no callback is ever invoked
\* for it.
C6_ErrorContainment ==
    /\ [][\A t \in Threads :
              HeadFails(t) /\ Moves(t)
                  => /\ pc'[t] = "process"
                     /\ new_messages'[t] = Tail(new_messages[t])
                     /\ calls' = calls
                     /\ running' = running]_vars
    /\ [](\A s \in Stems :
              outcome[s] = "error" =>
                  /\ calls[s] = <<>>
                  /\ s \in seen_messages
                  /\ s \notin Queued)

\* an invalid file was skipped, it is still in the inbox and in the seen-set,
\* and a valid file was dispatched to two callbacks; the loop is in a later
\* cycle
C6_Witness ==
    \E s, s2 \in Stems :
        /\ inbox[s] = BadJson /\ origin[s] = "late"
        /\ outcome[s] = "error" /\ calls[s] = <<>>
        /\ inbox[s2] = Json(PayloadNormal) /\ origin[s2] = "late"
        /\ outcome[s2] = "dispatched" /\ Len(calls[s2]) = 2
        /\ pc[1] = "detect"

\* ------------------------------------------------------------------- C7
\* C7 as stated (start-time validation): a watcher whose inbox path is missing
\* or not a directory when start() is called never enters Running: the running
\* flag is not set and no scan, cycle or callback takes place.
C7_StartTimeValidation ==
    path_at_start \in {"missing", "notdir"} =>
        /\ ~running
        /\ \A t \in Threads : pc[t] \notin {"baseline"} \cup AfterBaseline
        /\ seen_messages = {}

\* C7 amended (construction-time validation): the path is validated by the
\* constructor, and only there.  A watcher whose path is missing or not a
\* directory at construction is never constructed (the constructor raises),
\* so start() cannot be called: the running flag is never set and no scan,
\* cycle or callback takes place; a path that is a directory at construction
\* yields a watcher.
C7_ConstructionValidation ==
    /\ path_at_ctor \in {"missing", "notdir"} =>
          /\ watcher = "ctor_raised"
          /\ ~running
          /\ \A t \in Threads : pc[t] = "idle"
          /\ seen_messages = {}
          /\ \A s \in Stems : calls[s] = <<>>
    /\ path_at_ctor = "ok" => watcher = "constructed"

\* the constructor has raised on a path that is not a directory
C7_Witness ==
    /\ path_at_ctor = "notdir"
    /\ watcher = "ctor_raised"
    /\ path_state = "notdir"

\* ------------------------------------------------------------------- C9
\* C9 (error propagation policy): once start() has been called no error
\* propagates out of it, and start() returns only because of a stop request.
C9_NoPropagation ==
    \A t \in Threads :
        /\ pc[t] # "raised"
        /\ pc[t] = "returned" => stop_called

\* --------------------------------------------------- fair specification
\* The thread that executes start() keeps running (weak fairness of its
\* steps: every callback and every sleep returns), and directory enumeration
\* does not fail for ever (strong fairness of a successful detection).
\* The liveness claims are checked on the callers that follow the documented
\* discipline: callbacks are registered before start() is called.
LiveContents == Contents

LiveEnvironment ==
    \/ \E s \in Stems, c \in LiveContents : AddFile(s, c)
    \/ \E s \in Stems : DeleteFile(s)
    \/ \E k \in {"missing", "notdir"} : PathRemove(k)

LiveCaller ==
    \/ \E f \in FilterChoices : Construct(f)
    \/ (register_callback /\ \A t \in Threads : pc[t] = "idle")
    \/ \E f \in FilterChoices : set_filter(f)
    \/ stop

LiveNext == LiveEnvironment \/ LiveCaller \/ \E t \in Threads : Loop(t)

FairSpec ==
    /\ Init
    /\ [][LiveNext]_vars
    /\ \A t \in Threads : WF_vars(Loop(t))
    /\ \A t \in Threads : SF_vars(DetectOk(t))

\* ------------------------------------------------------------------- C3
\* every callback registered has been invoked for the file <s>.json
Delivered(s) ==
    /\ outcome[s] = "dispatched"
    /\ Elems(CalledFor(s)) = Elems(callbacks)

\* the content c is a message that every filter a caller may configure passes
PassesEvery(c) ==
    /\ c.kind = "json"
    /\ \A f \in FilterChoices : f = None \/ matches(f[1], from_file(c.data, 0))

\* the stem is in the seen-set although its file was never queued: seen
\* stems are skipped by every later detection, so the file is missed for good
Missed(s) ==
    /\ s \in seen_messages
    /\ s \notin Queued
    /\ outcome[s] = "none"
    /\ calls[s] = <<>>

C8_StopLeadsToStopped ==
    /\ \A t \in Threads :
          (stop_called /\ pc[t] \in LoopPcs) ~> (pc[t] = "returned" /\ ~running)
    /\ [][\A t \in Threads :
              pc[t] \in {"finally", "returned"} => pc'[t] \in {"finally", "returned"}]_vars

\* stop() was called during a dispatch and start() has returned since, the
\* running flag False
C8_Witness ==
    /\ stop_called
    /\ pc[1] = "returned"
    /\ ~running
    /\ \E s \in Stems : outcome[s] = "dispatched"


\* ------------------------------------------- MessageFilter.matches alone
\* the constraints and messages matches is applied to
FilterTo == {None, Some(""), Some("ATLAS")}
FilterFrom == {None, Some(""), Some("FORGE")}
FilterPriority == {None, Some(""), Some("HIGH")}
FilterKeywords == {<<>>, << <<"c", "a", "t">> >>, << <<"x">>, <<"C", "A", "T">> >>}
Filters ==
    {MessageFilter(to, fr, pr, kw) :
        to \in FilterTo, fr \in FilterFrom, pr \in FilterPriority, kw \in FilterKeywords}

MessageTo ==
    {[is_list |-> TRUE, items |-> <<>>],
     [is_list |-> TRUE, items |-> <<"ATLAS", "BOLT">>],
     [is_list |-> TRUE, items |-> <<"CLIO">>],
     [is_list |-> TRUE, items |-> <<"ALL_AGENTS">>],
     [is_list |-> TRUE, items |-> <<"BOLT", "ALL">>],
     [is_list |-> FALSE, value |-> "ATLAS"]}
MessageFrom == {"FORGE", "forge", "UNKNOWN"}
MessagePriority == {"HIGH", "high", "NORMAL"}
MessageSubject == {<<>>, <<"C", "a", "t", "s">>, <<"a", "t">>}
MessageBody ==
    {EmptyBody,
     [is_dict |-> TRUE, items |-> << << <<"s">>, <<"c", "A", "t">> >> >>],
     [is_dict |-> FALSE, value |-> <<"c", "a">>]}
Messages ==
    {[msg_id |-> "m1", from_agent |-> fr, to |-> to, subject |-> su, body |-> bo,
      priority |-> pr, timestamp |-> "", filepath |-> 0] :
        fr \in MessageFrom, to \in MessageTo, su \in MessageSubject,
        bo \in MessageBody, pr \in MessagePriority}

MatchInit ==
    /\ path_state = "ok"
    /\ inbox = [s \in Stems |-> Absent]
    /\ watcher = "none"
    /\ message_filter = None
    /\ callbacks = <<>>
    /\ seen_messages = {}
    /\ running = FALSE
    /\ pc = [t \in Threads |-> "idle"]
    /\ new_messages = [t \in Threads |-> <<>>]
    /\ cur = [t \in Threads |-> None]
    /\ cb_i = [t \in Threads |-> 1]
    /\ raised_at = [t \in Threads |-> 0]
    /\ scan = [t \in Threads |-> <<>>]
    /\ sleep_left = [t \in Threads |-> 0]
    /\ calls = [s \in Stems |-> <<>>]
    /\ outcome = [s \in Stems |-> "none"]
    /\ origin = [s \in Stems |-> "none"]
    /\ path_at_ctor = "unset"
    /\ path_at_start = "unset"
    /\ stop_called = FALSE
    /\ stop_requested = FALSE
    /\ detect_failed = [t \in Threads |-> FALSE]
    /\ arg_filter \in Filters
    /\ arg_message \in Messages
    /\ ret_matches = None
    /\ arg_data = PayloadNormal
    /\ ret_message = None

\* filter.matches(message) is called and returns
ApplyMatches ==
    /\ ret_matches = None
    /\ ret_matches' = Some(matches(arg_filter, arg_message))
    /\ UNCHANGED <<env_vars, watcher_vars, thread_vars, hist_vars,
                   arg_filter, arg_message, arg_data, ret_message>>

MatchNext == ApplyMatches

MatchSpec == MatchInit /\ [][MatchNext]_vars

\* ------------------------------------------------------------------ C10
\* the recipients of a message, as a set
Recipients(m) == IF m.to.is_list THEN Elems(m.to.items) ELSE {m.to.value}

\* the recipient constraint x is satisfied
RecipientOK(x, m) == {x, "ALL_AGENTS", "ALL"} \cap Recipients(m) # {}

\* some keyword occurs, case-folded, in the subject or the serialized body
KeywordOK(f, m) ==
    \E kw \in Elems(f.keywords) :
        Contains(lower(kw), lower(m.subject \o <<" ">> \o body_text(m.body)))

\* C10 as stated (filter conjunction): matches returns true exactly when every
\* constraint that is set (not None; keyword list not empty) is satisfied,
\* the sender and the priority constraint by exact string equality.
C10_FilterConjunction ==
    ret_matches # None =>
        ret_matches[1] =
            (/\ arg_filter.to_agent # None
                    => RecipientOK(arg_filter.to_agent[1], arg_message)
             /\ arg_filter.from_agent # None
                    => arg_message.from_agent = arg_filter.from_agent[1]
             /\ arg_filter.priority # None
                    => arg_message.priority = arg_filter.priority[1]
             /\ arg_filter.keywords # <<>> => KeywordOK(arg_filter, arg_message))

\* a constraint that is a non-empty string
NonEmpty(o) == o \notin {None, Some("")}

\* C10 amended (filter conjunction): matches returns true exactly when every
\* constraint that is set is satisfied, where a recipient, sender or priority
\* constraint counts as set only if it is a non-empty string (None and the
\* empty string both pass every message); the sender and the priority
\* constraint are satisfied by exact string equality only.
C10_FilterConjunctionNonEmpty ==
    ret_matches # None =>
        ret_matches[1] =
            (/\ NonEmpty(arg_filter.to_agent)
                    => RecipientOK(arg_filter.to_agent[1], arg_message)
             /\ NonEmpty(arg_filter.from_agent)
                    => arg_message.from_agent = arg_filter.from_agent[1]
             /\ NonEmpty(arg_filter.priority)
                    => arg_message.priority = arg_filter.priority[1]
             /\ arg_filter.keywords # <<>> => KeywordOK(arg_filter, arg_message))

\* recipient, sender and keyword constraints pass and the priority differs
\* from the constraint in letter case only: matches has returned False
C10_Witness ==
    /\ arg_filter = MessageFilter(Some("ATLAS"), Some("FORGE"), Some("HIGH"),
                                  << <<"c", "a", "t">> >>)
    /\ RecipientOK("ATLAS", arg_message)
    /\ arg_message.from_agent = "FORGE"
    /\ arg_message.priority = "high"
    /\ KeywordOK(arg_filter, arg_message)
    /\ ret_matches = Some(FALSE)

\* ------------------------------------------------------------------ C11
\* no sender, no priority and no keyword constraint takes part in the test
OnlyRecipient(f) ==
    /\ ~NonEmpty(f.from_agent)
    /\ ~NonEmpty(f.priority)
    /\ f.keywords = <<>>

\* C11 as stated (recipient check with broadcast markers): for a filter whose
\* only set constraint (not None) is the recipient X, matches returns true
\* exactly when X, "ALL_AGENTS" or "ALL" is among the message's recipients.
C11_RecipientCheck ==
    (/\ ret_matches # None
     /\ arg_filter.to_agent # None
     /\ arg_filter.from_agent = None
     /\ arg_filter.priority = None
     /\ arg_filter.keywords = <<>>)
        => ret_matches[1] =
              (\/ arg_filter.to_agent[1] \in Recipients(arg_message)
               \/ "ALL_AGENTS" \in Recipients(arg_message)
               \/ "ALL" \in Recipients(arg_message))

\* C11 amended (recipient check with broadcast markers): for a filter whose
\* recipient constraint is a non-empty string X and that has no other
\* constraint, matches returns true exactly when X, "ALL_AGENTS" or "ALL" is
\* among the message's recipients (a recipient that is a single string counts
\* as a one-element list); a recipient constraint that is the empty string
\* is no constraint.
C11_RecipientCheckNonEmpty ==
    /\ (ret_matches # None /\ NonEmpty(arg_filter.to_agent) /\ OnlyRecipient(arg_filter))
          => ret_matches[1] =
                (\/ arg_filter.to_agent[1] \in Recipients(arg_message)
                 \/ "ALL_AGENTS" \in Recipients(arg_message)
                 \/ "ALL" \in Recipients(arg_message))
    /\ (ret_matches # None /\ ~NonEmpty(arg_filter.to_agent) /\ OnlyRecipient(arg_filter))
          => ret_matches[1] = TRUE

\* the filter asks for ATLAS only; the message is addressed to BOLT and to
\* "ALL", not to ATLAS, and matches has returned True
C11_Witness ==
    /\ arg_filter = MessageFilter(Some("ATLAS"), None, None, <<>>)
    /\ arg_message.to = [is_list |-> TRUE, items |-> <<"BOLT", "ALL">>]
    /\ ret_matches = Some(TRUE)

\* ------------------------------------------------------------------ C12
\* C12 (wildcard filter): the filter with no recipient, no sender, no priority
\* and no keyword returns True from matches for every message.
C12_Wildcard ==
    (ret_matches # None /\ arg_filter = MessageFilter(None, None, None, <<>>))
        => ret_matches = Some(TRUE)

\* the wildcard filter has matched a message with a recipient, a sender, a
\* priority, a subject and a body
C12_Witness ==
    /\ arg_filter = MessageFilter(None, None, None, <<>>)
    /\ arg_message.to = [is_list |-> TRUE, items |-> <<"CLIO">>]
    /\ arg_message.from_agent = "forge"
    /\ arg_message.priority = "high"
    /\ arg_message.subject = <<"a", "t">>
    /\ arg_message.body = [is_dict |-> FALSE, value |-> <<"c", "a">>]
    /\ ret_matches = Some(TRUE)

\* ------------------------------------------------------------------ C13
\* the upper-case / lower-case pairs of the letters that occur in the model
CasePairs == {<<"C", "c">>, <<"A", "a">>, <<"T", "t">>, <<"S", "s">>}
\* two characters are equal up to letter case
SameLetter(a, b) == a = b \/ <<a, b>> \in CasePairs \/ <<b, a>> \in CasePairs

\* the text the keywords are searched in: subject, a blank, the serialized body
SearchText(m) == m.subject \o <<" ">> \o body_text(m.body)

\* kw occurs in text at some position, letter case ignored, whether or not
\* the occurrence is a whole word
OccursIgnoringCase(kw, text) ==
    \E i \in 0..(Len(text) - Len(kw)) :
        \A j \in 1..Len(kw) : SameLetter(text[i + j], kw[j])

AnyKeywordOccurs(f, m) ==
    \E kw \in Elems(f.keywords) : OccursIgnoringCase(kw, SearchText(m))

\* C13 (keyword check): with a non-empty keyword list, matches returns True
\* only if some keyword occurs in the subject-and-serialized-body text, letter
\* case ignored on both sides and word boundaries ignored; when no other
\* constraint takes part, it returns True exactly in that case.
C13_KeywordCheck ==
    (ret_matches # None /\ arg_filter.keywords # <<>>)
        => /\ ret_matches[1] => AnyKeywordOccurs(arg_filter, arg_message)
           /\ (/\ ~NonEmpty(arg_filter.to_agent)
               /\ ~NonEmpty(arg_filter.from_agent)
               /\ ~NonEmpty(arg_filter.priority))
                  => ret_matches[1] = AnyKeywordOccurs(arg_filter, arg_message)

\* the keywords are "x" and "CAT", the subject is "Cats" and the body is
\* empty: the upper-case keyword has matched inside the longer word
C13_Witness ==
    /\ arg_filter = MessageFilter(None, None, None, << <<"x">>, <<"C", "A", "T">> >>)
    /\ arg_message.subject = <<"C", "a", "t", "s">>
    /\ arg_message.body = EmptyBody
    /\ ret_matches = Some(TRUE)

\* ------------------------------------------ SynapseMessage.from_file alone
\* a payload with every recognised key; the payloads from_file is applied to
\* are its restrictions to the subsets of the keys
FullPayload ==
    [msg_id     |-> "m1",
     message_id |-> "m2",
     from       |-> "FORGE",
     from_agent |-> "ATLAS",
     to         |-> [is_list |-> TRUE, items |-> <<"BOLT">>],
     subject    |-> <<"h", "i">>,
     body       |-> [is_dict |-> TRUE, items |-> << << <<"k">>, <<"v">> >> >>],
     priority   |-> "HIGH",
     timestamp  |-> "t1"]
Payloads == {[k \in K |-> FullPayload[k]] : K \in SUBSET (DOMAIN FullPayload)}

ParseInit ==
    /\ path_state = "ok"
    /\ inbox = [s \in Stems |-> Absent]
    /\ watcher = "none"
    /\ message_filter = None
    /\ callbacks = <<>>
    /\ seen_messages = {}
    /\ running = FALSE
    /\ pc = [t \in Threads |-> "idle"]
    /\ new_messages = [t \in Threads |-> <<>>]
    /\ cur = [t \in Threads |-> None]
    /\ cb_i = [t \in Threads |-> 1]
    /\ raised_at = [t \in Threads |-> 0]
    /\ scan = [t \in Threads |-> <<>>]
    /\ sleep_left = [t \in Threads |-> 0]
    /\ calls = [s \in Stems |-> <<>>]
    /\ outcome = [s \in Stems |-> "none"]
    /\ origin = [s \in Stems |-> "none"]
    /\ path_at_ctor = "unset"
    /\ path_at_start = "unset"
    /\ stop_called = FALSE
    /\ stop_requested = FALSE
    /\ detect_failed = [t \in Threads |-> FALSE]
    /\ arg_filter = IdleFilter
    /\ arg_message = IdleMessage
    /\ ret_matches = None
    /\ arg_data \in Payloads
    /\ ret_message = None

\* SynapseMessage.from_file is called on a file that holds the object
\* arg_data, and returns
ApplyFromFile ==
    /\ ret_message = None
    /\ ret_message' = Some(from_file(arg_data, 0))
    /\ UNCHANGED <<env_vars, watcher_vars, thread_vars, hist_vars,
                   arg_filter, arg_message, ret_matches, arg_data>>

ParseNext == ApplyFromFile

ParseSpec == ParseInit /\ [][ParseNext]_vars

\* ------------------------------------------------------------------ C14
\* the key is present in the parsed object
Has(k) == k \in DOMAIN arg_data

\* C14 (message defaults and aliasing): the identity is the value of msg_id
\* if present, else of message_id if present, else "unknown"; the sender is
\* the value of from if present, else of from_agent, else "UNKNOWN"; the
\* recipients default to the empty list, the subject to "", the body to the
\* empty object, the priority to "NORMAL", the timestamp to ""; a present
\* field is carried over unchanged, and a payload with an identity field
\* only yields a message with all the defaults.
C14_DefaultsAndAliasing ==
    ret_message # None =>
        LET m == ret_message[1] IN
        /\ Has("msg_id") => m.msg_id = "m1"
        /\ (~Has("msg_id") /\ Has("message_id")) => m.msg_id = "m2"
        /\ (~Has("msg_id") /\ ~Has("message_id")) => m.msg_id = "unknown"
        /\ Has("from") => m.from_agent = "FORGE"
        /\ (~Has("from") /\ Has("from_agent")) => m.from_agent = "ATLAS"
        /\ (~Has("from") /\ ~Has("from_agent")) => m.from_agent = "UNKNOWN"
        /\ m.to = (IF Has("to") THEN FullPayload.to ELSE [is_list |-> TRUE, items |-> <<>>])
        /\ m.subject = (IF Has("subject") THEN FullPayload.subject ELSE <<>>)
        /\ m.body = (IF Has("body") THEN FullPayload.body ELSE [is_dict |-> TRUE, items |-> <<>>])
        /\ m.priority = (IF Has("priority") THEN "HIGH" ELSE "NORMAL")
        /\ m.timestamp = (IF Has("timestamp") THEN "t1" ELSE "")
        /\ DOMAIN arg_data = {"msg_id"} =>
              m = [msg_id |-> "m1", from_agent |-> "UNKNOWN",
                   to |-> [is_list |-> TRUE, items |-> <<>>], subject |-> <<>>,
                   body |-> [is_dict |-> TRUE, items |-> <<>>],
                   priority |-> "NORMAL", timestamp |-> "", filepath |-> 0]

\* a payload that holds both identity keys and both sender keys and nothing
\* else has been parsed: msg_id and from win, the rest are the defaults
C14_Witness ==
    /\ DOMAIN arg_data = {"msg_id", "message_id", "from", "from_agent"}
    /\ ret_message # None
    /\ ret_message[1].msg_id = "m1"
    /\ ret_message[1].from_agent = "FORGE"
    /\ ret_message[1].priority = "NORMAL"
    /\ ret_message[1].to = [is_list |-> TRUE, items |-> <<>>]

\* ------------------------------------- start() and stop() from two threads
\* Two threads call start() on one watcher while stop() is called from
\* elsewhere.  The for loop of _detect_new_messages is taken one path at a
\* time here, the membership test of line 177 and the additions of lines
\* 178-179 being separate steps of the interpreter between which another
\* thread may run.
ConcThreads == {1, 2}

ConcInit ==
    /\ path_state = "ok"
    /\ inbox = [s \in Stems |-> Absent]
    /\ watcher = "constructed"
    /\ message_filter = None
    /\ callbacks = <<1>>
    /\ seen_messages = {}
    /\ running = FALSE
    /\ pc = [t \in ConcThreads |-> "idle"]
    /\ new_messages = [t \in ConcThreads |-> <<>>]
    /\ cur = [t \in ConcThreads |-> None]
    /\ cb_i = [t \in ConcThreads |-> 1]
    /\ raised_at = [t \in ConcThreads |-> 0]
    /\ scan = [t \in ConcThreads |-> <<>>]
    /\ sleep_left = [t \in ConcThreads |-> 0]
    /\ calls = [s \in Stems |-> <<>>]
    /\ outcome = [s \in Stems |-> "none"]
    /\ origin = [s \in Stems |-> "none"]
    /\ path_at_ctor = "ok"
    /\ path_at_start = "unset"
    /\ stop_called = FALSE
    /\ stop_requested = FALSE
    /\ detect_failed = [t \in ConcThreads |-> FALSE]
    /\ arg_filter = IdleFilter
    /\ arg_message = IdleMessage
    /\ ret_matches = None
    /\ arg_data = PayloadNormal
    /\ ret_message = None

\* line 175: glob lists the directory; the for loop starts
DetectBegin(t) ==
    /\ pc[t] = "detect"
    /\ \E q \in Orders(glob) : scan' = [scan EXCEPT ![t] = q]
    /\ new_messages' = [new_messages EXCEPT ![t] = <<>>]
    /\ pc' = [pc EXCEPT ![t] = "iter"]
    /\ detect_failed' = [detect_failed EXCEPT ![t] = FALSE]
    /\ UNCHANGED <<env_vars, watcher_vars, cur, cb_i, raised_at, sleep_left, pure_vars,
                   calls, outcome, origin, path_at_ctor, path_at_start,
                   stop_called, stop_requested>>

\* lines 176-177: the next path; `if msg_id not in self.seen_messages`
DetectTest(t) ==
    /\ pc[t] = "iter"
    /\ scan[t] # <<>>
    /\ IF Head(scan[t]) \in seen_messages
          THEN /\ scan' = [scan EXCEPT ![t] = Tail(@)]
               /\ pc' = pc
          ELSE /\ scan' = scan
               /\ pc' = [pc EXCEPT ![t] = "claim"]
    /\ UNCHANGED <<env_vars, watcher_vars, new_messages, cur, cb_i, raised_at,
                   sleep_left, hist_vars, pure_vars>>

\* lines 178-179: the path is appended and its stem added to the seen-set
DetectClaim(t) ==
    /\ pc[t] = "claim"
    /\ new_messages' = [new_messages EXCEPT ![t] = Append(@, Head(scan[t]))]
    /\ seen_messages' = seen_messages \cup {Head(scan[t])}
    /\ scan' = [scan EXCEPT ![t] = Tail(@)]
    /\ pc' = [pc EXCEPT ![t] = "iter"]
    /\ UNCHANGED <<env_vars, watcher, message_filter, callbacks, running,
                   cur, cb_i, raised_at, sleep_left, hist_vars, pure_vars>>

\* line 183: the for loop is exhausted; new_messages is returned
DetectEnd(t) ==
    /\ pc[t] = "iter"
    /\ scan[t] = <<>>
    /\ pc' = [pc EXCEPT ![t] = "process"]
    /\ UNCHANGED <<env_vars, watcher_vars, new_messages, cur, cb_i, raised_at,
                   scan, sleep_left, hist_vars, pure_vars>>

ConcLoop(t) ==
    \/ StartCheck(t)
    \/ StartSet(t)
    \/ Baseline(t)
    \/ LoopTest(t)
    \/ DetectBegin(t)
    \/ DetectTest(t)
    \/ DetectClaim(t)
    \/ DetectEnd(t)
    \/ ProcessEmpty(t)
    \/ ProcessDispatch(t)
    \/ Callback(t, FALSE)
    \/ CallbacksDone(t)
    \/ Sleep(t)
    \/ Finally(t)

ConcNext ==
    \/ \E s \in Stems : AddFile(s, Json(PayloadNormal))
    \/ stop
    \/ \E t \in ConcThreads : ConcLoop(t)

ConcSpec == ConcInit /\ [][ConcNext]_vars

\* ------------------------------------------------------------------ C15
\* the threads that are executing detection or dispatch
InCycle == {t \in DOMAIN pc : pc[t] \in {"detect", "iter", "claim", "process", "callbacks"}}

\* C15 (no overlapping cycles, no double claim): whatever start() and stop()
\* calls are made from several threads, at most one poll loop is executing
\* detection or dispatch at any time, no stem is queued by two loops and no
\* callback is invoked twice for one file.
C15_NoOverlapNoDoubleClaim ==
    /\ Cardinality(InCycle) <= 1
    /\ \A t1, t2 \in DOMAIN pc :
          t1 # t2 => Elems(new_messages[t1]) \cap Elems(new_messages[t2]) = {}
    /\ \A s \in Stems : \A i, j \in DOMAIN calls[s] :
          i # j => calls[s][i] # calls[s][j]

\* ------------------------------------------------------------------ C16
\* C16 (level-triggered stop): a stop request made while start() is executing
\* is never lost: from the request on the running flag stays False, and the
\* loop test that follows the request leaves the loop.
C16_StopNeverLost ==
    /\ [](stop_requested => ~running)
    /\ [][\A t \in DOMAIN pc :
              (stop_requested /\ pc[t] = "top" /\ pc'[t] # "top") => pc'[t] = "finally"]_vars

\* ------------------------------------------------------------------ C17
\* some start() call has returned: the loop has stopped
Stopped == \E t \in DOMAIN pc : pc[t] = "returned"

\* C17 (lifecycle state machine): Stopped is terminal: once a loop has
\* stopped the running flag is never set again, whatever calls follow, and
\* no further initial scan is run.
C17_StoppedIsTerminal ==
    /\ [][(Stopped /\ ~running) => ~running']_vars
    /\ [][\A t \in DOMAIN pc :
              Stopped => ~(pc[t] = "baseline" /\ pc'[t] = "top")]_vars

\* ------------------------------------------------------------------ C18
\* the file <s>.json is valid and waits to be detected while the detection
\* of the cycle in progress has failed
PendingAtFailure(s) ==
    /\ \E t \in Threads : detect_failed[t]
    /\ inbox[s].kind = "json"
    /\ s \notin seen_messages

\* C18 (detection failure): the detection step that fails returns no file,
\* leaves the seen-set, the callbacks' history and the running flag as they
\* were; nothing is queued or dispatched in the rest of that cycle, which
\* goes on to the sleep and from there to the next loop test; and a valid
\* file that was waiting when the enumeration failed is taken up by a later
\* cycle (unless it is removed or the watcher is stopped first).
C18_DetectionFailure ==
    /\ [][\A t \in Threads :
              (pc[t] = "detect" /\ detect_failed'[t])
                  => /\ pc'[t] = "process"
                     /\ new_messages'[t] = <<>>
                     /\ seen_messages' = seen_messages
                     /\ calls' = calls
                     /\ running' = running]_vars
    /\ [](\A t \in Threads :
              detect_failed[t] => /\ pc[t] \in {"process", "sleep"}
                                  /\ new_messages[t] = <<>>
                                  /\ cur[t] = None)
    /\ [][\A t \in Threads : detect_failed[t] => calls' = calls]_vars
    /\ [][\A t \in Threads :
              (detect_failed[t] /\ pc[t] = "sleep" /\ pc'[t] # "sleep") => pc'[t] = "top"]_vars
    /\ \A s \in Stems :
          PendingAtFailure(s) ~> (outcome[s] # "none" \/ inbox[s] = Absent \/ stop_called)

\* the enumeration failed while two valid files were waiting; the loop sleeps,
\* the files are still unseen and the watcher is running
C18_Witness ==
    /\ detect_failed[1]
    /\ pc[1] = "sleep"
    /\ running
    /\ \A s \in Stems : PendingAtFailure(s)
    /\ Len(callbacks) = 2

\* ------------------------------------------------ the sleep, tick by tick
\* a tick of the clock goes by while time.sleep is in progress
Tick(t) ==
    /\ pc[t] = "sleep"
    /\ sleep_left[t] > 0
    /\ sleep_left' = [sleep_left EXCEPT ![t] = @ - 1]
    /\ UNCHANGED <<env_vars, watcher_vars, pc, new_messages, cur, cb_i, raised_at, scan,
                   hist_vars, pure_vars>>

\* the callers of the timed specification call stop() while the loop sleeps
TimedCaller ==
    \/ \E f \in FilterChoices : Construct(f)
    \/ register_callback
    \/ \E f \in FilterChoices : set_filter(f)
    \/ (stop /\ \E t \in Threads : pc[t] = "sleep")

TimedNext ==
    \/ Environment
    \/ TimedCaller
    \/ \E t \in Threads : Loop(t)
    \/ \E t \in Threads : Tick(t)

TimedSpec == Init /\ [][TimedNext]_vars

\* ------------------------------------------------------------------ C19
\* C19 (interruptible sleep): a stop request issued while the loop is in its
\* inter-cycle sleep ends the sleep: with the request pending the thread
\* does not stay asleep while the rest of the poll interval goes by.
C19_InterruptibleSleep ==
    [][\A t \in Threads :
          (pc[t] = "sleep" /\ ~running /\ pc'[t] = "sleep")
              => sleep_left'[t] = sleep_left[t]]_vars

\* ------------------------------------------------------------------ C20
\* the stem is in the seen-set and it is not a detection of the file now
\* under it that put it there: the file was created under a stem that was
\* already in the set (a file of that name had been there before), or the
\* initial scan marked it
SeenBeforeSighting(s) ==
    /\ origin[s] = "early"
    /\ s \in seen_messages
    /\ BaselineDone

\* C20 as stated (seen-set monotonicity): no step removes a stem from the
\* seen-set; a stem that is in the set is not queued by any later detection;
\* and no callback is invoked for a file whose stem was in the seen-set
\* before the file was sighted, such as a file created again under the name
\* of a deleted one.
C20_SeenSetMonotone ==
    /\ [][seen_messages \subseteq seen_messages']_vars
    /\ [][\A s \in Stems : (s \in seen_messages /\ s \notin Queued) => s \notin Queued']_vars
    /\ [][\A s \in Stems : SeenBeforeSighting(s) => calls'[s] = calls[s]]_vars

\* C20 amended (seen-set monotonicity): no step removes a stem from the
\* seen-set; a stem that is in the set is not queued by any later detection;
\* and no callback is invoked for a stem that is in the seen-set and not
\* waiting in the queue of the cycle in progress, so none is invoked for a
\* file created again under the name of a deleted one unless that name was
\* still queued when the file was created.
C20_SeenSetMonotoneUnqueued ==
    /\ [][seen_messages \subseteq seen_messages']_vars
    /\ [][\A s \in Stems : (s \in seen_messages /\ s \notin Queued) => s \notin Queued']_vars
    /\ [][\A s \in Stems : (s \in seen_messages /\ s \notin Queued) => calls'[s] = calls[s]]_vars

\* a file was dispatched to two callbacks, deleted, and created again under
\* the same name; the loop has completed a later cycle without touching it
C20_Witness ==
    \E s \in Stems :
        /\ SeenBeforeSighting(s)
        /\ inbox[s] = Json(PayloadNormal)
        /\ message_filter = None
        /\ calls[s] = <<1, 2>>
        /\ outcome[s] = "dispatched"
        /\ pc[1] = "sleep"
        /\ running

\* ------------------------------------- stop() while a cycle is dispatching
\* The callers of this specification call stop() only while the loop thread
\* is in the for loop of line 228 (in _process_message or between two files);
\* callbacks are registered before start().  The loop thread keeps running
\* (weak fairness of its steps: every callback and every sleep returns).
CycleCaller ==
    \/ \E f \in FilterChoices : Construct(f)
    \/ (register_callback /\ \A t \in Threads : pc[t] = "idle")
    \/ \E f \in FilterChoices : set_filter(f)
    \/ (stop /\ \E t \in Threads : pc[t] \in {"process", "callbacks"})

CycleNext == LiveEnvironment \/ CycleCaller \/ \E t \in Threads : Loop(t)

CycleSpec ==
    /\ Init
    /\ [][CycleNext]_vars
    /\ \A t \in Threads : WF_vars(Loop(t))

\* ------------------------------------------------------------------ C21
\* C21 (claim before dispatch): while a callback is being invoked for a
\* message the stem of the file it was loaded from is in the seen-set; the
\* detection step that queues a file adds its stem to the set and parses,
\* filters and dispatches nothing, and every file that is parsed, filtered or
\* handed to a callback has its stem in the set at that moment.
C21_ClaimBeforeDispatch ==
    /\ [](\A t \in Threads :
              /\ pc[t] = "callbacks" => cur[t][1].filepath \in seen_messages
              /\ pc[t] \in {"process", "callbacks"}
                    => Elems(new_messages[t]) \subseteq seen_messages)
    /\ [][\A t \in Threads :
              (pc[t] = "detect" /\ pc'[t] # "detect")
                  => /\ Elems(new_messages'[t]) \subseteq seen_messages'
                     /\ calls' = calls
                     /\ outcome' = outcome
                     /\ cur'[t] = None]_vars
    /\ [][\A s \in Stems :
              (calls'[s] # calls[s] \/ outcome'[s] # outcome[s])
                  => s \in seen_messages]_vars

\* the first of two callbacks has been invoked for a file found by a poll
\* cycle, with a second file of the same cycle still waiting: both stems are
\* in the seen-set already
C21_Witness ==
    \E s, s2 \in Stems :
        /\ s # s2
        /\ pc[1] = "callbacks"
        /\ cur[1] # None /\ cur[1][1].filepath = s
        /\ new_messages[1] = <<s, s2>>
        /\ cb_i[1] = 2 /\ calls[s] = <<1>>
        /\ origin[s] = "late" /\ origin[s2] = "late"
        /\ outcome[s2] = "none" /\ calls[s2] = <<>>
        /\ {s, s2} \subseteq seen_messages

\* ------------------------------------------------------------------ C22
\* C22 (dispatch order): the files of a cycle are taken from the front of the
\* list detection returned, one after the other; the callbacks are invoked
\* for the file at the front only, each once, in the order of self.callbacks,
\* and the dispatch of a file ends when all of them have been invoked; while
\* a file is being dispatched no file behind it in the list has been parsed
\* or handed to any callback; and detection starts with nothing of the
\* previous cycle left to process.
C22_DispatchOrder ==
    /\ [](\A t \in Threads :
              pc[t] = "callbacks" =>
                  /\ new_messages[t] # <<>>
                  /\ cur[t][1].filepath = Head(new_messages[t])
                  /\ \A i \in 2..Len(new_messages[t]) :
                        /\ calls[new_messages[t][i]] = <<>>
                        /\ outcome[new_messages[t][i]] = "none")
    /\ [](\A t \in Threads :
              pc[t] \in {"top", "detect"} => (new_messages[t] = <<>> /\ cur[t] = None))
    /\ [][\A t \in Threads :
              (pc[t] \in {"process", "callbacks"} /\ new_messages'[t] # new_messages[t])
                  => new_messages'[t] = Tail(new_messages[t])]_vars
    /\ [][\A s \in Stems :
              outcome'[s] # outcome[s]
                  => \E t \in Threads : new_messages[t] # <<>> /\ s = Head(new_messages[t])]_vars
    /\ [][\A s \in Stems :
              calls'[s] # calls[s]
                  => /\ \E t \in Threads :
                          /\ pc[t] = "callbacks"
                          /\ s = Head(new_messages[t])
                     /\ Len(calls[s]) < Len(callbacks)
                     /\ calls'[s] = Append(calls[s], callbacks[Len(calls[s]) + 1])]_vars
    /\ [][\A t \in Threads :
              (pc[t] = "callbacks" /\ pc'[t] # "callbacks")
                  => /\ calls[Head(new_messages[t])] = callbacks
                     /\ outcome'[Head(new_messages[t])] = "dispatched"]_vars

\* the first file found by a cycle has been dispatched to both callbacks and
\* the first callback has been invoked for the second one
C22_Witness ==
    \E s, s2 \in Stems :
        /\ s # s2
        /\ pc[1] = "callbacks"
        /\ new_messages[1] = <<s2>>
        /\ callbacks = <<1, 2>>
        /\ outcome[s] = "dispatched" /\ calls[s] = <<1, 2>>
        /\ outcome[s2] = "none" /\ calls[s2] = <<1>>
        /\ origin[s] = "late" /\ origin[s2] = "late"

\* ------------------------------------------------------------------ C23
\* stop() has been called while thread t was in the for loop of line 228,
\* which it has not left yet
StoppedInCycle(t) == ~running /\ pc[t] \in {"process", "callbacks"}

\* C23 (stop during a cycle): a stop() call made while a cycle is
\* dispatching leaves the cycle as it is; the loop goes on with the files
\* queued, each parsed, filtered and, if it passes, handed to every callback,
\* and leaves the for loop only when the list is exhausted; every queued file
\* is eventually processed; no detection is started and nothing is queued
\* after the call, so callbacks are invoked only for files that were queued
\* when it was made.
C23_StopDuringCycle ==
    /\ [][\A t \in Threads :
              (pc[t] \in {"process", "callbacks"} /\ running /\ ~running')
                  => /\ pc'[t] = pc[t]
                     /\ new_messages'[t] = new_messages[t]
                     /\ cur'[t] = cur[t]
                     /\ cb_i'[t] = cb_i[t]
                     /\ calls' = calls
                     /\ outcome' = outcome]_vars
    /\ [][\A t \in Threads :
              (StoppedInCycle(t) /\ pc'[t] \notin {"process", "callbacks"})
                  => (new_messages[t] = <<>> /\ pc'[t] = "sleep")]_vars
    /\ [][\A t \in Threads :
              (StoppedInCycle(t) /\ pc[t] = "process" /\ new_messages[t] # <<>> /\ Moves(t))
                  => IF /\ inbox[Head(new_messages[t])].kind = "json"
                        /\ passes_filter(from_file(inbox[Head(new_messages[t])].data,
                                                   Head(new_messages[t])))
                     THEN /\ pc'[t] = "callbacks"
                          /\ cur'[t] = Some(from_file(inbox[Head(new_messages[t])].data,
                                                      Head(new_messages[t])))
                     ELSE /\ pc'[t] = "process"
                          /\ new_messages'[t] = Tail(new_messages[t])]_vars
    /\ [][\A t \in Threads :
              (StoppedInCycle(t) /\ pc[t] = "callbacks" /\ pc'[t] # "callbacks")
                  => /\ calls[Head(new_messages[t])] = callbacks
                     /\ outcome'[Head(new_messages[t])] = "dispatched"]_vars
    /\ [][\A t \in Threads :
              (~running /\ pc[t] \in LoopPcs)
                  => /\ pc'[t] # "detect"
                     /\ Elems(new_messages'[t]) \subseteq Elems(new_messages[t])]_vars
    /\ [][\A s \in Stems :
              (~running /\ calls'[s] # calls[s]) => s \in Queued]_vars
    /\ \A s \in Stems :
          ((\E t \in Threads : StoppedInCycle(t)) /\ s \in Queued) ~> (outcome[s] # "none")

\* stop() was called in a cycle that found two files: the first has been
\* dispatched to both callbacks, the second is being dispatched with one
\* callback still to be invoked
C23_Witness ==
    \E s, s2 \in Stems :
        /\ s # s2
        /\ StoppedInCycle(1) /\ stop_called
        /\ pc[1] = "callbacks"
        /\ new_messages[1] = <<s2>>
        /\ callbacks = <<1, 2>>
        /\ outcome[s] = "dispatched" /\ calls[s] = <<1, 2>>
        /\ cb_i[1] = 2 /\ calls[s2] = <<1>>

\* ------------------------------------------------------------------ C24
\* the positions of a start() call that has got past the test of line 243
Started == {"set", "baseline", "finally", "returned", "raised"} \cup LoopPcs

\* C24 (redundant start): a start() call that finds the running flag set
\* returns at once: the step leaves the seen-set, the callbacks, the filter
\* and the running flag (True) as they are and moves no other thread; the
\* call sets no flag, runs no initial scan and no loop, and does not run the
\* finally clause, so it never clears the flag of the loop that is running.
C24_RedundantStart ==
    /\ [][\A t \in DOMAIN pc :
              (pc[t] = "idle" /\ running /\ pc'[t] # "idle")
                  => /\ pc'[t] \notin Started
                     /\ running'
                     /\ seen_messages' = seen_messages
                     /\ callbacks' = callbacks
                     /\ message_filter' = message_filter
                     /\ new_messages' = new_messages
                     /\ calls' = calls
                     /\ \A u \in DOMAIN pc : u # t => pc'[u] = pc[u]]_vars
    /\ [][\A t \in DOMAIN pc :
              pc[t] = "rejected"
                  => /\ pc'[t] = "rejected"
                     /\ new_messages'[t] = <<>>
                     /\ cur'[t] = None]_vars

\* the second start() call was rejected; the loop of the first is running,
\* has dispatched a file to the callback and sleeps; stop() was never called
C24_Witness ==
    /\ DOMAIN pc = ConcThreads
    /\ pc[2] = "rejected"
    /\ pc[1] = "sleep"
    /\ running
    /\ ~stop_requested /\ ~stop_called
    /\ \E s \in Stems : outcome[s] = "dispatched" /\ calls[s] = <<1>>

=============================================================================
